---- MODULE Spec2Model ----
(***************************************************************************)
(* Lost-and-found service: the claim routes (backend/routes/claims.js),    *)
(* the Claim model, the Item model and the item routes, modelled at the    *)
(* granularity of the handlers' awaits.  Every await of a store call is a  *)
(* point where another request may run, so each handler is a sequence of   *)
(* steps over a request slot; the document store is shared.                *)
(***************************************************************************)
EXTENDS Integers, FiniteSets, Sequences, TLC

(* ------------------------------ bounds -------------------------------- *)
\* number of multi-step requests started in one behaviour
MaxReqs == 3

\* an owner and two other users (claimants)
Users == {"u1", "u2", "u3"}
\* the users who report items (users are interchangeable, so one is enough)
Owners == {"u1"}
\* statuses offered in the body of PUT /claims/:claimId
Decisions == {"approved", "rejected", "pending"}
\* adminNotes offered in the body of PUT /claims/:claimId ("" is none)
Notes == {"", "n"}
\* item ids offered in requests; the item exists once it was reported
ItemIds == {1}
\* request slots: the requests that may be in flight at the same time
Slots == {1, 2}
\* message lengths (after trim) offered to Submit
MsgLens == {19, 20, 1000, 1001}
\* titles and categories offered in the body of POST /items
Titles == {"t0"}
Categories == {"Keys"}
\* bodies offered to PUT /items/:id: "" is an absent field, ok is the verdict
\* of the express-validator chain on the body
EditBodies == {[ok |-> FALSE, title |-> "", category |-> ""],
               [ok |-> TRUE, title |-> "t1", category |-> ""],
               [ok |-> TRUE, title |-> "", category |-> "Other"]}

(* ------------------------- program constants -------------------------- *)
MinMessage == 20
MaxMessage == 1000

VARIABLES
  items,     \* the Item collection: ItemIds -> document
  claims,    \* the Claim collection: a set of documents
  claimSeq,  \* number of Claim documents ever inserted (ids are never reused)
  clock,     \* logical time of `new Date()` in the resolution writes
  req,       \* request slots: the handler's position and its local variables
  started,   \* number of requests started so far
  nOk,       \* history: per claim id, number of Resolve requests answered 200
  browser    \* the AuthProvider of the frontend: React state, localStorage, axios header

vars == <<items, claims, claimSeq, clock, req, started, nOk, browser>>

\* the variables of the backend
server == <<items, claims, claimSeq, clock, req, started, nOk>>

NoUser == "none"

\* the page is not loaded: useState(null), useState(true), nothing in flight
NotMounted == [mounted |-> FALSE, user |-> NoUser, token |-> "", header |-> "",
               loading |-> TRUE, verify |-> "idle", login |-> "idle",
               register |-> "idle", last |-> ""]
NoClaimId == 0
ClaimIds == 1..MaxReqs

\* an Item document that was never created
NoItem == [exists |-> FALSE, type |-> "lost", createdBy |-> NoUser,
           title |-> "", category |-> "",
           status |-> "active", isActive |-> TRUE, views |-> 0]

\* Item schema defaults applied by `new Item(itemData)`
NewItem(u, t, ti, ca) == [exists |-> TRUE, type |-> t, createdBy |-> u,
                          title |-> ti, category |-> ca,
                          status |-> "active", isActive |-> TRUE, views |-> 0]

\* Claim schema defaults applied by `new Claim({item, claimedBy, message})`
NewClaim(id, i, u) == [id |-> id, item |-> i, claimedBy |-> u,
                       status |-> "pending", adminNotes |-> "",
                       resolvedBy |-> NoUser, resolvedAt |-> 0]

\* no body of PUT /items/:id, no query of GET /items
NoBody == [ok |-> TRUE, title |-> "", category |-> ""]
NoCred == [token |-> "none", account |-> "active"]
NoQuery == [type |-> "", category |-> "", narrow |-> FALSE, page |-> 0, limit |-> 0]

Idle == [kind |-> "idle", pc |-> "idle", user |-> NoUser, item |-> 0,
         claim |-> NoClaimId, decision |-> "", notes |-> "", snap |-> "",
         views |-> 0, after |-> FALSE, dup |-> NoClaimId, resp |-> 0, cause |-> "",
         body |-> NoBody, doc |-> NoItem, query |-> NoQuery,
         out |-> <<>>, total |-> 0, pages |-> 0,
         cred |-> NoCred, role |-> "", reqUser |-> FALSE,
         sent |-> <<>>, nexts |-> 0, rejected |-> FALSE]

\* the handler sends its response and returns
Respond(r, code, cause) == [req[r] EXCEPT !.pc = "done", !.resp = code, !.cause = cause]

ClaimById(id) == {c \in claims : c.id = id}

\* the duplicate check finds nothing
FindOne_none(i, u) == {}

\* Claim.findOne({ item, claimedBy })
FindOne(i, u) == {c \in claims : c.item = i /\ c.claimedBy = u}

\* the validator has no upper bound
MessageValid_noMax(len) == len >= MinMessage

\* express-validator: body('message').trim().isLength({ min: 20, max: 1000 })
MessageValid(len) == len >= MinMessage /\ len <= MaxMessage

Init ==
  /\ items = [i \in ItemIds |-> NoItem]
  /\ claims = {}
  /\ claimSeq = 0
  /\ clock = 0
  /\ req = [r \in Slots |-> Idle]
  /\ started = 0
  /\ nOk = [c \in ClaimIds |-> 0]
  /\ browser = NotMounted

\* a response, once sent, is taken out of its slot before anything else runs
NoneDone == \A r \in Slots : req[r].pc # "done"

\* a new request takes the first free slot
CanStart(r) ==
  /\ NoneDone
  /\ req[r].pc = "idle"
  /\ \A q \in Slots : q < r => req[q].pc # "idle"
  /\ started < MaxReqs

(* ------------------------- POST /items -------------------------------- *)
\* the handler has a single store call, newItem.save()
ItemCreate(u, t) ==
  /\ NoneDone
  /\ \E i \in ItemIds :
       /\ ~items[i].exists
       /\ \A j \in ItemIds : j < i => items[j].exists
       /\ \E ti \in Titles, ca \in Categories :
            items' = [items EXCEPT ![i] = NewItem(u, t, ti, ca)]
  /\ UNCHANGED <<claims, claimSeq, clock, req, started, nOk, browser>>

\* a request leaves its slot once its response was sent
Finish(r) ==
  /\ req[r].pc = "done"
  /\ req' = [req EXCEPT ![r] = Idle]
  /\ UNCHANGED <<items, claims, claimSeq, clock, started, nOk, browser>>

\* the catch block answers 503
StoreFail_transient(r) ==
  /\ NoneDone
  /\ req[r].pc # "idle"
  /\ req' = [req EXCEPT ![r] = Respond(r, 503, "store")]
  /\ UNCHANGED <<items, claims, claimSeq, clock, started, nOk, browser>>

\* a store call of the handler throws; every handler's catch block answers
\* 500 (the error is not a CastError) and nothing is retried
StoreFail(r) ==
  /\ NoneDone
  /\ req[r].pc # "idle"
  /\ req' = [req EXCEPT ![r] = Respond(r, 500, "store")]
  /\ UNCHANGED <<items, claims, claimSeq, clock, started, nOk, browser>>

(* ------------------------ POST /claims/:itemId ------------------------ *)
\* `!item || !item.isActive || item.status !== 'active'` is false
ItemAvailable(it) == it.exists /\ it.isActive /\ it.status = "active"

\* the own-item check is missing
IsOwnItem_never(it, u) == FALSE

\* `item.createdBy.toString() === req.user.userId`
IsOwnItem(it, u) == it.createdBy = u

\* the index is not unique
UniqueIndexOk_off(i, u) == TRUE

\* the unique index { item: 1, claimedBy: 1 } admits the insert
UniqueIndexOk(i, u) == ~\E c \in claims : c.item = i /\ c.claimedBy = u

\* auth has passed; validationResult(req) is examined
SubmitStart(r, u, i, len) ==
  /\ CanStart(r)
  /\ started' = started + 1
  /\ LET \* history: the claim of this claimant on this item at arrival
         old == {c \in claims : c.item = i /\ c.claimedBy = u}
         q == [Idle EXCEPT !.kind = "submit", !.user = u, !.item = i,
                           !.after = (old # {}),
                           !.dup = IF old = {} THEN NoClaimId
                                   ELSE (CHOOSE c \in old : TRUE).id] IN
       req' = [req EXCEPT ![r] =
                 IF MessageValid(len)
                   THEN [q EXCEPT !.pc = "findItem"]
                   ELSE [q EXCEPT !.pc = "done", !.resp = 400, !.cause = "validation"]]
  /\ UNCHANGED <<items, claims, claimSeq, clock, nOk, browser>>

\* await Item.findById(itemId), the availability check and the own-item check
SubmitFindItem(r) ==
  /\ NoneDone
  /\ req[r].kind = "submit" /\ req[r].pc = "findItem"
  /\ LET it == items[req[r].item] IN
       req' = [req EXCEPT ![r] =
                 IF ~ItemAvailable(it) THEN Respond(r, 404, "item")
                 ELSE IF IsOwnItem(it, req[r].user) THEN Respond(r, 400, "own")
                 ELSE [req[r] EXCEPT !.pc = "findOne"]]
  /\ UNCHANGED <<items, claims, claimSeq, clock, started, nOk, browser>>

\* await Claim.findOne({ item, claimedBy }) and the duplicate check
SubmitFindOne(r) ==
  /\ NoneDone
  /\ req[r].kind = "submit" /\ req[r].pc = "findOne"
  /\ req' = [req EXCEPT ![r] =
               IF FindOne(req[r].item, req[r].user) # {}
                 THEN Respond(r, 400, "duplicate")
                 ELSE [req[r] EXCEPT !.pc = "save"]]
  /\ UNCHANGED <<items, claims, claimSeq, clock, started, nOk, browser>>

\* await claim.save(): an insert, rejected by the unique index with a
\* duplicate-key error that the catch block turns into 500
SubmitSave(r) ==
  /\ NoneDone
  /\ req[r].kind = "submit" /\ req[r].pc = "save"
  /\ IF UniqueIndexOk(req[r].item, req[r].user)
       THEN /\ claimSeq' = claimSeq + 1
            /\ claims' = claims \cup {NewClaim(claimSeq + 1, req[r].item, req[r].user)}
            /\ req' = [req EXCEPT ![r] = [req[r] EXCEPT !.pc = "populate",
                                                        !.claim = claimSeq + 1]]
       ELSE /\ req' = [req EXCEPT ![r] = Respond(r, 500, "E11000")]
            /\ UNCHANGED <<claims, claimSeq>>
  /\ UNCHANGED <<items, clock, started, nOk, browser>>

\* the two claim.populate(...) reads, then res.status(201)
SubmitPopulate(r) ==
  /\ NoneDone
  /\ req[r].kind = "submit" /\ req[r].pc = "populate"
  /\ req' = [req EXCEPT ![r] = Respond(r, 201, "")]
  /\ UNCHANGED <<items, claims, claimSeq, clock, started, nOk, browser>>

(* ------------------------ PUT /claims/:claimId ------------------------ *)
\* body('status').isIn(['approved', 'rejected'])
DecisionValid(d) == d \in {"approved", "rejected"}

\* claimSchema.methods.approve, with the pre('save') hook: the document as
\* written by save(), which $sets the modified paths
Approve(c, approvedBy, now) ==
  [c EXCEPT !.status = "approved", !.resolvedBy = approvedBy, !.resolvedAt = now]

\* claimSchema.methods.reject, with the pre('save') hook
Reject(c, rejectedBy, notes, now) ==
  [c EXCEPT !.status = "rejected", !.resolvedBy = rejectedBy, !.resolvedAt = now,
            !.adminNotes = IF notes # "" THEN notes ELSE @]

\* the pending check is missing
StillPending_any(c) == TRUE

\* `claim.status !== 'pending'` is false
StillPending(c) == c.status = "pending"

\* the ownership check is missing
OwnsItemOf_any(c, u) == TRUE

\* `claim.item.createdBy.toString() !== req.user.userId` is false
OwnsItemOf(c, u) == items[c.item].createdBy = u

\* save() of a loaded document updates it by _id, whatever its stored
\* status is now; it throws DocumentNotFoundError when the document is gone
SaveClaim(doc) == {c \in claims : c.id # doc.id} \cup {doc}

ResolveStart(r, u, cid, d, n) ==
  /\ CanStart(r)
  /\ started' = started + 1
  /\ LET q == [Idle EXCEPT !.kind = "resolve", !.user = u, !.claim = cid,
                           !.decision = d,
                           \* adminNotes is read on the reject path only
                           !.notes = IF d = "rejected" THEN n ELSE "",
                           !.after = (cid \in ClaimIds /\ nOk[cid] > 0)] IN
       req' = [req EXCEPT ![r] =
                 IF DecisionValid(d)
                   THEN [q EXCEPT !.pc = "findClaim"]
                   ELSE [q EXCEPT !.pc = "done", !.resp = 400, !.cause = "validation"]]
  /\ UNCHANGED <<items, claims, claimSeq, clock, nOk, browser>>

\* the pending check comes before the ownership check
ResolveFind_pendingFirst(r) ==
  /\ NoneDone
  /\ req[r].kind = "resolve" /\ req[r].pc = "findClaim"
  /\ req' = [req EXCEPT ![r] =
       IF ClaimById(req[r].claim) = {} THEN Respond(r, 404, "claim")
       ELSE LET c == CHOOSE x \in ClaimById(req[r].claim) : TRUE IN
            IF ~StillPending(c) THEN Respond(r, 400, "processed")
            ELSE IF ~OwnsItemOf(c, req[r].user) THEN Respond(r, 403, "owner")
            ELSE [req[r] EXCEPT !.item = c.item, !.snap = items[c.item].status,
                                !.pc = IF req[r].decision = "approved"
                                         THEN "approve" ELSE "reject"]]
  /\ UNCHANGED <<items, claims, claimSeq, clock, started, nOk, browser>>

\* await Claim.findById(claimId).populate('item') and the three checks
ResolveFind(r) ==
  /\ NoneDone
  /\ req[r].kind = "resolve" /\ req[r].pc = "findClaim"
  /\ req' = [req EXCEPT ![r] =
       IF ClaimById(req[r].claim) = {} THEN Respond(r, 404, "claim")
       ELSE LET c == CHOOSE x \in ClaimById(req[r].claim) : TRUE IN
            IF ~OwnsItemOf(c, req[r].user) THEN Respond(r, 403, "owner")
            ELSE IF ~StillPending(c) THEN Respond(r, 400, "processed")
            ELSE [req[r] EXCEPT !.item = c.item, !.snap = items[c.item].status,
                                !.pc = IF req[r].decision = "approved"
                                         THEN "approve" ELSE "reject"]]
  /\ UNCHANGED <<items, claims, claimSeq, clock, started, nOk, browser>>

\* await claim.approve(req.user.userId)
ResolveApprove(r) ==
  /\ NoneDone
  /\ req[r].kind = "resolve" /\ req[r].pc = "approve"
  /\ IF ClaimById(req[r].claim) = {}
       THEN /\ req' = [req EXCEPT ![r] = Respond(r, 500, "DocumentNotFound")]
            /\ UNCHANGED <<claims, clock>>
       ELSE LET c == CHOOSE x \in ClaimById(req[r].claim) : TRUE IN
            /\ clock' = clock + 1
            /\ claims' = SaveClaim(Approve(c, req[r].user, clock + 1))
            /\ req' = [req EXCEPT ![r] = [req[r] EXCEPT !.pc = "itemSave"]]
  /\ UNCHANGED <<items, claimSeq, started, nOk, browser>>

\* await claim.reject(req.user.userId, adminNotes)
ResolveReject(r) ==
  /\ NoneDone
  /\ req[r].kind = "resolve" /\ req[r].pc = "reject"
  /\ IF ClaimById(req[r].claim) = {}
       THEN /\ req' = [req EXCEPT ![r] = Respond(r, 500, "DocumentNotFound")]
            /\ UNCHANGED <<claims, clock>>
       ELSE LET c == CHOOSE x \in ClaimById(req[r].claim) : TRUE IN
            /\ clock' = clock + 1
            /\ claims' = SaveClaim(Reject(c, req[r].user, req[r].notes, clock + 1))
            /\ req' = [req EXCEPT ![r] = [req[r] EXCEPT !.pc = "populate"]]
  /\ UNCHANGED <<items, claimSeq, started, nOk, browser>>

\* the approval does not touch the item
ResolveItemSave_skip(r) ==
  /\ NoneDone
  /\ req[r].kind = "resolve" /\ req[r].pc = "itemSave"
  /\ req' = [req EXCEPT ![r] = [req[r] EXCEPT !.pc = "populate"]]
  /\ UNCHANGED <<items, claims, claimSeq, clock, started, nOk, browser>>

\* claim.item.status = 'resolved'; await claim.item.save()
\* (the save writes status only when it differs from the loaded value)
ResolveItemSave(r) ==
  /\ NoneDone
  /\ req[r].kind = "resolve" /\ req[r].pc = "itemSave"
  /\ items' = IF req[r].snap # "resolved"
                THEN [items EXCEPT ![req[r].item].status = "resolved"]
                ELSE items
  /\ req' = [req EXCEPT ![r] = [req[r] EXCEPT !.pc = "populate"]]
  /\ UNCHANGED <<claims, claimSeq, clock, started, nOk, browser>>

\* the two claim.populate(...) reads, then res.json (200)
ResolvePopulate(r) ==
  /\ NoneDone
  /\ req[r].kind = "resolve" /\ req[r].pc = "populate"
  /\ req' = [req EXCEPT ![r] = Respond(r, 200, "")]
  /\ nOk' = [nOk EXCEPT ![req[r].claim] = @ + 1]
  /\ UNCHANGED <<items, claims, claimSeq, clock, started, browser>>

(* ---------------------- DELETE /claims/:claimId ----------------------- *)
DeleteStart(r, u, cid) ==
  /\ CanStart(r)
  /\ started' = started + 1
  /\ req' = [req EXCEPT ![r] = [Idle EXCEPT !.kind = "delete", !.user = u,
                                            !.claim = cid, !.pc = "findClaim"]]
  /\ UNCHANGED <<items, claims, claimSeq, clock, nOk, browser>>

\* await Claim.findById(claimId) and the three checks
DeleteFind(r) ==
  /\ NoneDone
  /\ req[r].kind = "delete" /\ req[r].pc = "findClaim"
  /\ req' = [req EXCEPT ![r] =
       IF ClaimById(req[r].claim) = {} THEN Respond(r, 404, "claim")
       ELSE LET c == CHOOSE x \in ClaimById(req[r].claim) : TRUE IN
            IF c.claimedBy # req[r].user THEN Respond(r, 403, "claimant")
            ELSE IF ~StillPending(c) THEN Respond(r, 400, "processed")
            ELSE [req[r] EXCEPT !.item = c.item, !.pc = "remove"]]
  /\ UNCHANGED <<items, claims, claimSeq, clock, started, nOk, browser>>

\* the document is kept
DeleteRemove_keep(r) ==
  /\ NoneDone
  /\ req[r].kind = "delete" /\ req[r].pc = "remove"
  /\ req' = [req EXCEPT ![r] = Respond(r, 200, "")]
  /\ UNCHANGED <<items, claims, claimSeq, clock, started, nOk, browser>>

\* await Claim.findByIdAndDelete(claimId), then res.json (200)
DeleteRemove(r) ==
  /\ NoneDone
  /\ req[r].kind = "delete" /\ req[r].pc = "remove"
  /\ claims' = claims \ ClaimById(req[r].claim)
  /\ req' = [req EXCEPT ![r] = Respond(r, 200, "")]
  /\ UNCHANGED <<items, claimSeq, clock, started, nOk, browser>>

(* ------------- DELETE /items/:id and PATCH /items/:id/resolve ---------- *)
\* kind is "itemDelete" or "itemResolve"
ItemOpStart(r, kind, u, i) ==
  /\ CanStart(r)
  /\ started' = started + 1
  /\ req' = [req EXCEPT ![r] = [Idle EXCEPT !.kind = kind, !.user = u,
                                            !.item = i, !.pc = "findItem"]]
  /\ UNCHANGED <<items, claims, claimSeq, clock, nOk, browser>>

\* the owner check is missing
ItemOpFind_noOwner(r) ==
  /\ NoneDone
  /\ req[r].kind \in {"itemDelete", "itemResolve"} /\ req[r].pc = "findItem"
  /\ LET it == items[req[r].item] IN
       req' = [req EXCEPT ![r] =
                 IF ~it.exists \/ ~it.isActive THEN Respond(r, 404, "item")
                 ELSE [req[r] EXCEPT !.snap = it.status, !.pc = "saveItem"]]
  /\ UNCHANGED <<items, claims, claimSeq, clock, started, nOk, browser>>

\* await Item.findById(req.params.id), the existence and the owner check
ItemOpFind(r) ==
  /\ NoneDone
  /\ req[r].kind \in {"itemDelete", "itemResolve"} /\ req[r].pc = "findItem"
  /\ LET it == items[req[r].item] IN
       req' = [req EXCEPT ![r] =
                 IF ~it.exists \/ ~it.isActive THEN Respond(r, 404, "item")
                 ELSE IF it.createdBy # req[r].user THEN Respond(r, 403, "owner")
                 ELSE [req[r] EXCEPT !.snap = it.status, !.pc = "saveItem"]]
  /\ UNCHANGED <<items, claims, claimSeq, clock, started, nOk, browser>>

\* the document is removed from the collection
ItemDeleteSave_remove(r) ==
  /\ NoneDone
  /\ req[r].kind = "itemDelete" /\ req[r].pc = "saveItem"
  /\ items' = [items EXCEPT ![req[r].item] = NoItem]
  /\ req' = [req EXCEPT ![r] = Respond(r, 200, "")]
  /\ UNCHANGED <<claims, claimSeq, clock, started, nOk, browser>>

\* the save writes the loaded status back with the flag
ItemDeleteSave_whole(r) ==
  /\ NoneDone
  /\ req[r].kind = "itemDelete" /\ req[r].pc = "saveItem"
  /\ items' = [items EXCEPT ![req[r].item].isActive = FALSE,
                            ![req[r].item].status = req[r].snap]
  /\ req' = [req EXCEPT ![r] = Respond(r, 200, "")]
  /\ UNCHANGED <<claims, claimSeq, clock, started, nOk, browser>>

\* item.isActive = false; await item.save()
ItemDeleteSave(r) ==
  /\ NoneDone
  /\ req[r].kind = "itemDelete" /\ req[r].pc = "saveItem"
  /\ items' = [items EXCEPT ![req[r].item].isActive = FALSE]
  /\ req' = [req EXCEPT ![r] = Respond(r, 200, "")]
  /\ UNCHANGED <<claims, claimSeq, clock, started, nOk, browser>>

\* item.status = 'resolved'; await item.save()
ItemResolveSave(r) ==
  /\ NoneDone
  /\ req[r].kind = "itemResolve" /\ req[r].pc = "saveItem"
  /\ items' = IF req[r].snap # "resolved"
                THEN [items EXCEPT ![req[r].item].status = "resolved"]
                ELSE items
  /\ req' = [req EXCEPT ![r] = Respond(r, 200, "")]
  /\ UNCHANGED <<claims, claimSeq, clock, started, nOk, browser>>

(* --------------------------- GET /items/:id --------------------------- *)
ViewStart(r, i) ==
  /\ CanStart(r)
  /\ started' = started + 1
  /\ req' = [req EXCEPT ![r] = [Idle EXCEPT !.kind = "view", !.item = i,
                                            !.pc = "findItem"]]
  /\ UNCHANGED <<items, claims, claimSeq, clock, nOk, browser>>

\* await Item.findById(req.params.id).populate(...) and the existence check
ViewFind(r) ==
  /\ NoneDone
  /\ req[r].kind = "view" /\ req[r].pc = "findItem"
  /\ LET it == items[req[r].item] IN
       req' = [req EXCEPT ![r] =
                 IF ~it.exists \/ ~it.isActive THEN Respond(r, 404, "item")
                 ELSE [req[r] EXCEPT !.views = it.views, !.pc = "incViews"]]
  /\ UNCHANGED <<items, claims, claimSeq, clock, started, nOk, browser>>

\* itemSchema.methods.incrementViews: this.views += 1; this.save()
ViewIncrement(r) ==
  /\ NoneDone
  /\ req[r].kind = "view" /\ req[r].pc = "incViews"
  /\ items' = [items EXCEPT ![req[r].item].views = req[r].views + 1]
  /\ req' = [req EXCEPT ![r] = Respond(r, 200, "")]
  /\ UNCHANGED <<claims, claimSeq, clock, started, nOk, browser>>

Next ==
  \/ \E u \in Owners, t \in {"lost", "found"} : ItemCreate(u, t)
  \/ \E r \in Slots : Finish(r)
  \/ \E r \in Slots : StoreFail(r)
  \/ \E r \in Slots, u \in Users, i \in ItemIds, len \in MsgLens : SubmitStart(r, u, i, len)
  \/ \E r \in Slots : SubmitFindItem(r)
  \/ \E r \in Slots : SubmitFindOne(r)
  \/ \E r \in Slots : SubmitSave(r)
  \/ \E r \in Slots : SubmitPopulate(r)
  \/ \E r \in Slots, u \in Users, cid \in 0..claimSeq, d \in Decisions, n \in Notes :
       ResolveStart(r, u, cid, d, n)
  \/ \E r \in Slots : ResolveFind(r)
  \/ \E r \in Slots : ResolveApprove(r)
  \/ \E r \in Slots : ResolveReject(r)
  \/ \E r \in Slots : ResolveItemSave(r)
  \/ \E r \in Slots : ResolvePopulate(r)
  \/ \E r \in Slots, u \in Users, cid \in 0..claimSeq : DeleteStart(r, u, cid)
  \/ \E r \in Slots : DeleteFind(r)
  \/ \E r \in Slots : DeleteRemove(r)
  \/ \E r \in Slots, k \in {"itemDelete", "itemResolve"}, u \in Users, i \in ItemIds :
       ItemOpStart(r, k, u, i)
  \/ \E r \in Slots : ItemOpFind(r)
  \/ \E r \in Slots : ItemDeleteSave(r)
  \/ \E r \in Slots : ItemResolveSave(r)
  \/ \E r \in Slots, i \in ItemIds : ViewStart(r, i)
  \/ \E r \in Slots : ViewFind(r)
  \/ \E r \in Slots : ViewIncrement(r)

Spec == Init /\ [][Next]_vars

(* --------------------------- PUT /items/:id --------------------------- *)
\* auth has passed; validationResult(req) is examined
EditStart(r, u, i, b) ==
  /\ CanStart(r)
  /\ started' = started + 1
  /\ LET q == [Idle EXCEPT !.kind = "itemEdit", !.user = u, !.item = i, !.body = b] IN
       req' = [req EXCEPT ![r] =
                 IF b.ok
                   THEN [q EXCEPT !.pc = "findItem"]
                   ELSE [q EXCEPT !.pc = "done", !.resp = 400, !.cause = "validation"]]
  /\ UNCHANGED <<items, claims, claimSeq, clock, nOk, browser>>

\* await Item.findById(req.params.id), the existence and the owner check
EditFind(r) ==
  /\ NoneDone
  /\ req[r].kind = "itemEdit" /\ req[r].pc = "findItem"
  /\ LET it == items[req[r].item] IN
       req' = [req EXCEPT ![r] =
                 IF ~it.exists \/ ~it.isActive THEN Respond(r, 404, "item")
                 ELSE IF it.createdBy # req[r].user THEN Respond(r, 403, "owner")
                 ELSE [req[r] EXCEPT !.doc = it, !.pc = "saveItem"]]
  /\ UNCHANGED <<items, claims, claimSeq, clock, started, nOk, browser>>

\* allowedUpdates.forEach(field => ...): the loaded document after the
\* assignments (title stands for the free-text fields, which are all treated
\* alike: title, description, location, contactInfo, image)
Edited(doc, b) ==
  [doc EXCEPT !.title = IF b.title # "" THEN b.title ELSE @,
              !.category = IF b.category # "" THEN b.category ELSE @]

\* the save replaces the stored document by the loaded one
SavePaths_whole(stored, loaded, new) == new

\* document.save() of a loaded document: $set of the modified paths only,
\* a path being modified when its value differs from the loaded one
SavePaths(stored, loaded, new) ==
  [stored EXCEPT !.title = IF new.title # loaded.title THEN new.title ELSE @,
                 !.category = IF new.category # loaded.category THEN new.category ELSE @]

\* await item.save()
EditSave(r) ==
  /\ NoneDone
  /\ req[r].kind = "itemEdit" /\ req[r].pc = "saveItem"
  /\ items' = [items EXCEPT ![req[r].item] =
                 SavePaths(@, req[r].doc, Edited(req[r].doc, req[r].body))]
  /\ req' = [req EXCEPT ![r] = [req[r] EXCEPT !.pc = "populate"]]
  /\ UNCHANGED <<claims, claimSeq, clock, started, nOk, browser>>

\* await item.populate('createdBy', ...), then res.json
EditPopulate(r) ==
  /\ NoneDone
  /\ req[r].kind = "itemEdit" /\ req[r].pc = "populate"
  /\ req' = [req EXCEPT ![r] = Respond(r, 200, "")]
  /\ UNCHANGED <<items, claims, claimSeq, clock, started, nOk, browser>>

\* the item routes alone, requests overlapping
NextItems ==
  \/ \E u \in Owners, t \in {"lost", "found"} : ItemCreate(u, t)
  \/ \E r \in Slots : Finish(r)
  \/ \E r \in Slots : StoreFail(r)
  \/ \E r \in Slots, u \in Users, i \in ItemIds, b \in EditBodies : EditStart(r, u, i, b)
  \/ \E r \in Slots : EditFind(r)
  \/ \E r \in Slots : EditSave(r)
  \/ \E r \in Slots : EditPopulate(r)
  \/ \E r \in Slots, k \in {"itemDelete", "itemResolve"}, u \in Users, i \in ItemIds :
       ItemOpStart(r, k, u, i)
  \/ \E r \in Slots : ItemOpFind(r)
  \/ \E r \in Slots : ItemDeleteSave(r)
  \/ \E r \in Slots : ItemResolveSave(r)
  \/ \E r \in Slots, i \in ItemIds : ViewStart(r, i)
  \/ \E r \in Slots : ViewFind(r)
  \/ \E r \in Slots : ViewIncrement(r)

SpecItems == Init /\ [][NextItems]_vars

(* ------------------- the read routes of the claim router --------------- *)
\* a read-only request enters its handler; it writes nothing and is not
\* counted in `started`
CanRead(r) ==
  /\ NoneDone
  /\ req[r].pc = "idle"
  /\ \A q \in Slots : q < r => req[q].pc # "idle"

\* .sort({ createdAt: -1 }) over a set of document ids: ids are assigned in
\* the order of creation, so the newest document has the largest id
RECURSIVE NewestFirst(_)
NewestFirst(S) ==
  IF S = {} THEN <<>>
  ELSE LET m == CHOOSE x \in S : \A y \in S : y <= x IN
         <<m>> \o NewestFirst(S \ {m})

\* Claim.getItemClaims(itemId): find({ item: itemId }), newest first
GetItemClaims(i) == NewestFirst({c.id : c \in {d \in claims : d.item = i}})

\* Claim.getUserClaims(userId): find({ claimedBy: userId }), newest first
GetUserClaims(u) == NewestFirst({c.id : c \in {d \in claims : d.claimedBy = u}})

\* the populate has no match condition
PopulateItem_any(c, u) == c.item

\* populate({ path: 'item', match: { createdBy: userId } }): the item of
\* the claim, or null (0) when the item does not match
PopulateItem(c, u) ==
  IF items[c.item].exists /\ items[c.item].createdBy = u THEN c.item ELSE 0

\* Claim.getPendingClaimsForUser(userId): find({ status: 'pending' }) with
\* the item populated
GetPendingClaimsForUser(u) ==
  {[id |-> c.id, item |-> PopulateItem(c, u)] : c \in {d \in claims : d.status = "pending"}}

\* GET /claims/item/:itemId
ListForItemStart(r, u, i) ==
  /\ CanRead(r)
  /\ req' = [req EXCEPT ![r] = [Idle EXCEPT !.kind = "listForItem", !.user = u,
                                            !.item = i, !.pc = "findItem"]]
  /\ UNCHANGED <<items, claims, claimSeq, clock, started, nOk, browser>>

\* the owner check is missing
ListForItemFind_open(r) ==
  /\ NoneDone
  /\ req[r].kind = "listForItem" /\ req[r].pc = "findItem"
  /\ LET it == items[req[r].item] IN
       req' = [req EXCEPT ![r] =
                 IF ~it.exists \/ ~it.isActive THEN Respond(r, 404, "item")
                 ELSE [req[r] EXCEPT !.pc = "query"]]
  /\ UNCHANGED <<items, claims, claimSeq, clock, started, nOk, browser>>

\* await Item.findById(itemId), the existence and the owner check
ListForItemFind(r) ==
  /\ NoneDone
  /\ req[r].kind = "listForItem" /\ req[r].pc = "findItem"
  /\ LET it == items[req[r].item] IN
       req' = [req EXCEPT ![r] =
                 IF ~it.exists \/ ~it.isActive THEN Respond(r, 404, "item")
                 ELSE IF it.createdBy # req[r].user THEN Respond(r, 403, "owner")
                 ELSE [req[r] EXCEPT !.pc = "query"]]
  /\ UNCHANGED <<items, claims, claimSeq, clock, started, nOk, browser>>

\* await Claim.getItemClaims(itemId); res.json(claims)
ListForItemQuery(r) ==
  /\ NoneDone
  /\ req[r].kind = "listForItem" /\ req[r].pc = "query"
  /\ req' = [req EXCEPT ![r] = [req[r] EXCEPT !.pc = "done", !.resp = 200,
                                              !.out = GetItemClaims(req[r].item)]]
  /\ UNCHANGED <<items, claims, claimSeq, clock, started, nOk, browser>>

\* GET /claims/mine
ListMineStart(r, u) ==
  /\ CanRead(r)
  /\ req' = [req EXCEPT ![r] = [Idle EXCEPT !.kind = "listMine", !.user = u,
                                            !.pc = "query"]]
  /\ UNCHANGED <<items, claims, claimSeq, clock, started, nOk, browser>>

\* await Claim.getUserClaims(req.user.userId); res.json(claims)
ListMineQuery(r) ==
  /\ NoneDone
  /\ req[r].kind = "listMine" /\ req[r].pc = "query"
  /\ req' = [req EXCEPT ![r] = [req[r] EXCEPT !.pc = "done", !.resp = 200,
                                              !.out = GetUserClaims(req[r].user)]]
  /\ UNCHANGED <<items, claims, claimSeq, clock, started, nOk, browser>>

\* GET /claims/pending
ListPendingStart(r, u) ==
  /\ CanRead(r)
  /\ req' = [req EXCEPT ![r] = [Idle EXCEPT !.kind = "listPending", !.user = u,
                                            !.pc = "query"]]
  /\ UNCHANGED <<items, claims, claimSeq, clock, started, nOk, browser>>

\* await Claim.getPendingClaimsForUser(req.user.userId);
\* validClaims = claims.filter(claim => claim.item); res.json(validClaims)
ListPendingQuery(r) ==
  /\ NoneDone
  /\ req[r].kind = "listPending" /\ req[r].pc = "query"
  /\ LET found == GetPendingClaimsForUser(req[r].user)
         validClaims == {c \in found : c.item # 0} IN
       req' = [req EXCEPT ![r] = [req[r] EXCEPT !.pc = "done", !.resp = 200,
                                    !.out = NewestFirst({c.id : c \in validClaims})]]
  /\ UNCHANGED <<items, claims, claimSeq, clock, started, nOk, browser>>

(* ------------------------------ GET /items ----------------------------- *)
\* the category enum of the Item schema and of the validators
AllCategories == {"Electronics", "Clothing", "Accessories", "Keys",
                  "Documents", "Bags", "Sports", "Other"}
MaxLimit == 50

\* queries offered to GET /items: "" is an absent filter; an absent page or
\* limit is its default (1, 20); narrow says that a location, search or
\* date filter is given
QTypes == {"", "all", "found", "bogus"}
QCategories == {"", "all", "Keys"}
Pages == {0, 1, 2}
Limits == {1, 20, 51}
Queries == [type : QTypes, category : QCategories, narrow : BOOLEAN,
            page : Pages, limit : Limits]

\* the query(...) validators of the route
QueryValid(q) ==
  /\ q.type \in {"", "lost", "found", "all"}
  /\ q.category \in {"", "all"} \cup AllCategories
  /\ q.page >= 1
  /\ q.limit >= 1 /\ q.limit <= MaxLimit

\* the listing ignores the status and the active flag
Matches_anyStatus(it, q) ==
  /\ it.exists
  /\ q.type \notin {"", "all"} => it.type = q.type
  /\ q.category \notin {"", "all"} => it.category = q.category

\* the query object of getFilteredItems: { isActive: true, status: 'active' }
\* with type and category added when given and not 'all'
Matches(it, q) ==
  /\ it.exists /\ it.isActive /\ it.status = "active"
  /\ q.type \notin {"", "all"} => it.type = q.type
  /\ q.category \notin {"", "all"} => it.category = q.category

\* Item.getFilteredItems(filters): M is the set of items that meet the
\* location, search and date conditions of the query
GetFilteredItems(q, M) ==
  {i \in DOMAIN items : Matches(items[i], q) /\ (q.narrow => i \in M)}

\* validationResult(req) is examined; the route has no auth middleware
ListItemsStart(r, q) ==
  /\ CanRead(r)
  /\ LET s == [Idle EXCEPT !.kind = "listItems", !.query = q] IN
       req' = [req EXCEPT ![r] =
                 IF QueryValid(q)
                   THEN [s EXCEPT !.pc = "query"]
                   ELSE [s EXCEPT !.pc = "done", !.resp = 400, !.cause = "validation"]]
  /\ UNCHANGED <<items, claims, claimSeq, clock, started, nOk, browser>>

\* the listing without .skip(...): every page is the first one
ListItemsQuery_noSkip(r) ==
  /\ NoneDone
  /\ req[r].kind = "listItems" /\ req[r].pc = "query"
  /\ \E M \in SUBSET (DOMAIN items) :
       /\ ~req[r].query.narrow => M = DOMAIN items
       /\ LET q == req[r].query
              found == NewestFirst(GetFilteredItems(q, M))
              last == IF q.limit < Len(found) THEN q.limit ELSE Len(found)
              total == Cardinality(GetFilteredItems(q, M)) IN
            req' = [req EXCEPT ![r] =
                      [req[r] EXCEPT !.pc = "done", !.resp = 200,
                                     !.out = SubSeq(found, 1, last),
                                     !.total = total,
                                     !.pages = (total + q.limit - 1) \div q.limit]]
  /\ UNCHANGED <<items, claims, claimSeq, clock, started, nOk, browser>>

\* await getFilteredItems(filters).limit(limit).skip((page - 1) * limit);
\* await Item.countDocuments({...}); res.json({ items, pagination })
ListItemsQuery(r) ==
  /\ NoneDone
  /\ req[r].kind = "listItems" /\ req[r].pc = "query"
  /\ \E M \in SUBSET (DOMAIN items) :
       /\ ~req[r].query.narrow => M = DOMAIN items
       /\ LET q == req[r].query
              found == NewestFirst(GetFilteredItems(q, M))
              skip == (q.page - 1) * q.limit
              last == IF skip + q.limit < Len(found) THEN skip + q.limit ELSE Len(found)
              total == Cardinality(GetFilteredItems(q, M)) IN
            req' = [req EXCEPT ![r] =
                      [req[r] EXCEPT !.pc = "done", !.resp = 200,
                                     !.out = SubSeq(found, skip + 1, last),
                                     !.total = total,
                                     !.pages = (total + q.limit - 1) \div q.limit]]
  /\ UNCHANGED <<items, claims, claimSeq, clock, started, nOk, browser>>

\* item collections offered to the listing
ListIds == {1, 2}
ListCategories == {"Keys", "Other"}
ListDocs ==
  {NoItem} \cup
  {[NewItem("u1", t, "t0", ca) EXCEPT !.status = st, !.isActive = a] :
     t \in {"lost", "found"}, ca \in ListCategories,
     st \in {"active", "resolved"}, a \in BOOLEAN}

\* any collection that creations, resolves and soft-deletes can leave
InitList ==
  /\ items \in [ListIds -> ListDocs]
  /\ \A i, j \in ListIds : (i < j /\ items[j].exists) => items[i].exists
  /\ claims = {}
  /\ claimSeq = 0
  /\ clock = 0
  /\ req = [r \in Slots |-> Idle]
  /\ started = 0
  /\ nOk = [c \in ClaimIds |-> 0]
  /\ browser = NotMounted

\* the public listing, one request at a time
NextList ==
  \/ \E q \in Queries : ListItemsStart(1, q)
  \/ ListItemsQuery(1)
  \/ StoreFail(1)
  \/ Finish(1)

SpecList == InitList /\ [][NextList]_vars

(* --------------------------- middleware/auth --------------------------- *)
\* credentials offered: the token of the Authorization header and, for a
\* token that verifies, what User.findById(decoded.userId) meets ("error":
\* the lookup throws)
Tokens == {"none", "malformed", "expired", "valid"}
Accounts == {"active", "inactive", "missing", "error"}
Creds == {c \in [token : Tokens, account : Accounts] :
            c.token # "valid" => c.account = "active"}

\* the user lookup is missing
Auth_noLookup(cred) ==
  IF cred.token \in {"none", "malformed", "expired"} THEN 401 ELSE 0

\* auth(req, res, next): the status it answers with, 0 when it calls next()
Auth(cred) ==
  IF cred.token = "none" THEN 401
  ELSE IF cred.token = "malformed" THEN 401
  ELSE IF cred.token = "expired" THEN 401
  ELSE IF cred.account = "error" THEN 500
  ELSE IF cred.account \in {"missing", "inactive"} THEN 401
  ELSE 0

\* auth answers itself; the handler is never entered
AuthDeny(r, kind, code) ==
  /\ CanRead(r)
  /\ req' = [req EXCEPT ![r] = [Idle EXCEPT !.kind = kind, !.pc = "done",
                                            !.resp = code, !.cause = "auth"]]
  /\ UNCHANGED <<items, claims, claimSeq, clock, started, nOk, browser>>

\* the routes registered with auth
ProtectedKinds == {"itemCreate", "submit", "resolve", "delete", "listForItem",
                   "listMine", "listPending", "itemEdit", "itemDelete", "itemResolve"}

\* auth has called next(): the handler of the route is entered, u being
\* decoded.userId
Protected(r) ==
  \/ \E u \in Owners, t \in {"lost", "found"} : ItemCreate(u, t)
  \/ \E u \in Users, i \in ItemIds, len \in MsgLens : SubmitStart(r, u, i, len)
  \/ \E u \in Users, cid \in 0..claimSeq, d \in Decisions, n \in Notes :
       ResolveStart(r, u, cid, d, n)
  \/ \E u \in Users, cid \in 0..claimSeq : DeleteStart(r, u, cid)
  \/ \E u \in Users, i \in ItemIds : ListForItemStart(r, u, i)
  \/ \E u \in Users : ListMineStart(r, u)
  \/ \E u \in Users : ListPendingStart(r, u)
  \/ \E u \in Users, i \in ItemIds, b \in EditBodies : EditStart(r, u, i, b)
  \/ \E k \in {"itemDelete", "itemResolve"}, u \in Users, i \in ItemIds :
       ItemOpStart(r, k, u, i)

\* router.<method>(path, auth, ..., handler): a request for a route
\* registered with auth arrives
ProtectedArrival(r, cred) ==
  IF Auth(cred) = 0
    THEN Protected(r)
    ELSE \E k \in ProtectedKinds : AuthDeny(r, k, Auth(cred))

\* a request for GET /items/:id arrives: the route is registered without
\* auth (as GET /items is), so the credential is not looked at
PublicArrival(r, cred) == \E i \in ItemIds : ViewStart(r, i)

\* every route, one request at a time
NextSerial ==
  \/ \E cred \in Creds : ProtectedArrival(1, cred)
  \/ \E cred \in Creds : PublicArrival(1, cred)
  \/ Finish(1)
  \/ StoreFail(1)
  \/ SubmitFindItem(1)
  \/ SubmitFindOne(1)
  \/ SubmitSave(1)
  \/ SubmitPopulate(1)
  \/ ResolveFind(1)
  \/ ResolveApprove(1)
  \/ ResolveReject(1)
  \/ ResolveItemSave(1)
  \/ ResolvePopulate(1)
  \/ DeleteFind(1)
  \/ DeleteRemove(1)
  \/ ListForItemFind(1)
  \/ ListForItemQuery(1)
  \/ ListMineQuery(1)
  \/ ListPendingQuery(1)
  \/ EditFind(1)
  \/ EditSave(1)
  \/ EditPopulate(1)
  \/ ItemOpFind(1)
  \/ ItemDeleteSave(1)
  \/ ItemResolveSave(1)
  \/ ViewFind(1)
  \/ ViewIncrement(1)

SpecSerial == Init /\ [][NextSerial]_vars

(* ------------------ two pending claims on one item --------------------- *)
\* the store after u1 reported a found item and u2 and u3 each submitted a
\* claim on it
InitTwoPending ==
  /\ items = [i \in ItemIds |-> NewItem("u1", "found", "t0", "Keys")]
  /\ claims = {NewClaim(1, 1, "u2"), NewClaim(2, 1, "u3")}
  /\ claimSeq = 2
  /\ clock = 0
  /\ req = [r \in Slots |-> Idle]
  /\ started = 0
  /\ nOk = [c \in ClaimIds |-> 0]
  /\ browser = NotMounted

\* the claim routes that write, one request at a time
NextClaims ==
  \/ Finish(1)
  \/ StoreFail(1)
  \/ \E u \in Users, i \in ItemIds, len \in MsgLens : SubmitStart(1, u, i, len)
  \/ SubmitFindItem(1)
  \/ SubmitFindOne(1)
  \/ SubmitSave(1)
  \/ SubmitPopulate(1)
  \/ \E u \in Users, cid \in 0..claimSeq, d \in Decisions, n \in Notes :
       ResolveStart(1, u, cid, d, n)
  \/ ResolveFind(1)
  \/ ResolveApprove(1)
  \/ ResolveReject(1)
  \/ ResolveItemSave(1)
  \/ ResolvePopulate(1)
  \/ \E u \in Users, cid \in 0..claimSeq : DeleteStart(1, u, cid)
  \/ DeleteFind(1)
  \/ DeleteRemove(1)

SpecTwoPending == InitTwoPending /\ [][NextClaims]_vars

(* -------------------- submit, delete, submit again --------------------- *)
\* the store after u1 reported a found item and u3 submitted a claim on it
InitOnePending ==
  /\ items = [i \in ItemIds |-> NewItem("u1", "found", "t0", "Keys")]
  /\ claims = {NewClaim(1, 1, "u3")}
  /\ claimSeq = 1
  /\ clock = 0
  /\ req = [r \in Slots |-> Idle]
  /\ started = 0
  /\ nOk = [c \in ClaimIds |-> 0]
  /\ browser = NotMounted

\* Submit by anyone and Delete by u1 and u2, one request at a time
NextRoundTrip ==
  \/ Finish(1)
  \/ StoreFail(1)
  \/ \E u \in Users, i \in ItemIds, len \in MsgLens : SubmitStart(1, u, i, len)
  \/ SubmitFindItem(1)
  \/ SubmitFindOne(1)
  \/ SubmitSave(1)
  \/ SubmitPopulate(1)
  \/ \E u \in {"u1", "u2"}, cid \in 0..claimSeq : DeleteStart(1, u, cid)
  \/ DeleteFind(1)
  \/ DeleteRemove(1)

SpecRoundTrip == InitOnePending /\ [][NextRoundTrip]_vars

(* ------------------- the auth and adminAuth middleware ----------------- *)
\* role of the stored user, and what the second User.findById of adminAuth
\* meets
Roles == {"user", "admin"}
Lookups == {"found", "missing", "error"}

\* res.status(code).json(...): one more response is handed to the HTTP layer
Json(q, code) == [q EXCEPT !.sent = Append(@, code),
                           !.resp = IF @ = 0 THEN code ELSE @]

\* a request reaches a route registered with auth or with adminAuth
MwArrival(r, mw, cred, role) ==
  /\ CanStart(r)
  /\ req' = [req EXCEPT ![r] = [Idle EXCEPT !.kind = mw, !.pc = "auth",
                                            !.cred = cred, !.role = role]]
  /\ started' = started + 1
  /\ UNCHANGED <<items, claims, claimSeq, clock, nOk, browser>>

\* auth(req, res, next) runs to its end: it answers 401 or 500, or sets
\* req.user and calls the next it was given.  adminAuth gave it () => {}
\* and goes on after the await whatever auth did.
MwAuth(r) ==
  /\ NoneDone
  /\ req[r].pc = "auth"
  /\ LET code == Auth(req[r].cred)
         q == IF code = 0 THEN [req[r] EXCEPT !.reqUser = TRUE]
                          ELSE Json(req[r], code) IN
       req' = [req EXCEPT ![r] =
                 IF req[r].kind = "adminAuth"
                   THEN [q EXCEPT !.pc = "admin"]
                   ELSE [q EXCEPT !.pc = "done", !.cause = "auth",
                                  !.nexts = IF code = 0 THEN @ + 1 ELSE @]]
  /\ UNCHANGED <<items, claims, claimSeq, clock, started, nOk, browser>>

\* adminAuth after `await auth(req, res, () => {})`: req.user.userId throws
\* a TypeError when auth did not set req.user, and the catch block calls
\* res.status(500).json(...); the HTTP layer refuses a response after the
\* first one by throwing inside the catch block, which rejects the promise
\* of adminAuth.  Otherwise User.findById, `!user || user.role !== 'admin'`
\* answers 403, and next() is called.
AdminCheck(r, found) ==
  /\ NoneDone
  /\ req[r].kind = "adminAuth" /\ req[r].pc = "admin"
  /\ LET q == [req[r] EXCEPT !.pc = "done", !.cause = "auth"] IN
       req' = [req EXCEPT ![r] =
                 IF ~req[r].reqUser
                   THEN [Json(q, 500) EXCEPT !.rejected = Len(req[r].sent) > 0]
                 ELSE IF found = "error" THEN Json(q, 500)
                 ELSE IF found = "missing" \/ req[r].role # "admin" THEN Json(q, 403)
                 ELSE [q EXCEPT !.nexts = @ + 1]]
  /\ UNCHANGED <<items, claims, claimSeq, clock, started, nOk, browser>>

\* requests passing through the two middleware functions
NextAuth ==
  \/ \E r \in Slots, mw \in {"auth", "adminAuth"}, cred \in Creds, role \in Roles :
       MwArrival(r, mw, cred, role)
  \/ \E r \in Slots : MwAuth(r)
  \/ \E r \in Slots, found \in Lookups : AdminCheck(r, found)
  \/ \E r \in Slots : Finish(r)

SpecAuth == Init /\ [][NextAuth]_vars

(* ---------------------- the AuthProvider of the frontend --------------- *)
\* what localStorage holds under 'token' when the page loads ("": nothing),
\* the tokens that login and register are answered with, and the users
StoredTokens == {"", "T0"}
LoginToken == "T1"
RegisterToken == "T2"
FrontUsers == {"u1", "u2"}

\* useEffect(() => {...}, []): with a stored token the header is set and
\* verifyToken() is called, which awaits GET /auth/verify
Mount(tok) ==
  /\ ~browser.mounted
  /\ browser' = IF tok # ""
                  THEN [NotMounted EXCEPT !.mounted = TRUE, !.token = tok, !.header = tok,
                                          !.verify = "pending", !.last = "mount"]
                  ELSE [NotMounted EXCEPT !.mounted = TRUE, !.loading = FALSE,
                                          !.last = "mount"]
  /\ UNCHANGED server

\* verifyToken: the request is answered; setUser(response.data.user), then
\* the finally block
VerifyTokenOk ==
  /\ browser.verify = "pending"
  /\ browser' = [browser EXCEPT !.user = "u1", !.loading = FALSE,
                                !.verify = "done", !.last = "verify"]
  /\ UNCHANGED server

\* verifyToken: the request fails; the catch block removes the token and the
\* header, then the finally block
VerifyTokenFail ==
  /\ browser.verify = "pending"
  /\ browser' = [browser EXCEPT !.token = "", !.header = "", !.loading = FALSE,
                                !.verify = "done", !.last = "verify"]
  /\ UNCHANGED server

\* login(email, password) up to `await axios.post('/auth/login', ...)`; the
\* login page is a public route, so it can be used while verifyToken waits
LoginStart(u) ==
  /\ browser.mounted /\ browser.login = "idle"
  /\ browser' = [browser EXCEPT !.login = u, !.last = "loginStart"]
  /\ UNCHANGED server

\* login after the await: setItem, header, setUser(user)
LoginOk ==
  /\ browser.login # "idle"
  /\ browser' = [browser EXCEPT !.token = LoginToken, !.header = LoginToken,
                                !.user = browser.login, !.login = "idle",
                                !.last = "login"]
  /\ UNCHANGED server

\* login: the catch block only shows a toast
LoginFail ==
  /\ browser.login # "idle"
  /\ browser' = [browser EXCEPT !.login = "idle", !.last = "loginFail"]
  /\ UNCHANGED server

\* register(name, email, password) up to its await
RegisterStart(u) ==
  /\ browser.mounted /\ browser.register = "idle"
  /\ browser' = [browser EXCEPT !.register = u, !.last = "registerStart"]
  /\ UNCHANGED server

\* register after the await: setItem, header, setUser(user)
RegisterOk ==
  /\ browser.register # "idle"
  /\ browser' = [browser EXCEPT !.token = RegisterToken, !.header = RegisterToken,
                                !.user = browser.register, !.register = "idle",
                                !.last = "register"]
  /\ UNCHANGED server

\* register: the catch block only shows a toast
RegisterFail ==
  /\ browser.register # "idle"
  /\ browser' = [browser EXCEPT !.register = "idle", !.last = "registerFail"]
  /\ UNCHANGED server

\* logout(): removeItem, delete the header, setUser(null); the navigation
\* bar offers it when user is set
Logout ==
  /\ browser.mounted /\ browser.user # NoUser
  /\ browser' = [browser EXCEPT !.token = "", !.header = "", !.user = NoUser,
                                !.last = "logout"]
  /\ UNCHANGED server

NextFront ==
  \/ \E tok \in StoredTokens : Mount(tok)
  \/ VerifyTokenOk
  \/ VerifyTokenFail
  \/ \E u \in FrontUsers : LoginStart(u)
  \/ LoginOk
  \/ LoginFail
  \/ \E u \in FrontUsers : RegisterStart(u)
  \/ RegisterOk
  \/ RegisterFail
  \/ Logout

SpecFront == Init /\ [][NextFront]_vars

(* ============================== claims ================================ *)
\* C1: in every reachable state, under every interleaving of concurrent
\* Submit requests, the store holds at most one claim per (item, claimant).
C1_OneClaimPerPair ==
  \A c \in claims, d \in claims :
    (c.item = d.item /\ c.claimedBy = d.claimedBy) => c = d

\* two Submits of one claimant raced past the duplicate check and the
\* second insert was rejected by the unique index
C1_Witness ==
  \E r \in Slots : /\ req[r].kind = "submit" /\ req[r].pc = "done"
                   /\ req[r].cause = "E11000"
                   /\ \E c \in claims : c.item = req[r].item /\ c.claimedBy = req[r].user

\* C2: two concurrent Resolve requests on one pending claim never both
\* succeed: at most one Resolve per claim is answered 200.
C2_SingleResolution == \A c \in ClaimIds : nOk[c] <= 1

\* C3: a claim's stored status changes only from pending to approved or
\* rejected; an approved or rejected status is never changed again.
C3_TerminalImmutable ==
  [][\A c \in claims : \A d \in claims' :
       (d.id = c.id /\ d.status # c.status) =>
         (c.status = "pending" /\ d.status \in {"approved", "rejected"})]_vars

\* C4 (as stated): every Resolve issued after a successful Resolve of the
\* same claim, by any user with a valid decision with
\* InvalidOperation (400, "already processed").
C4_Original ==
  \A r \in Slots :
    (req[r].kind = "resolve" /\ req[r].pc = "done" /\ req[r].after
       /\ DecisionValid(req[r].decision) /\ req[r].cause # "store")
    => (req[r].resp = 400 /\ req[r].cause = "processed")

\* C4 (amended): a Resolve issued after a successful Resolve of the same
\* claim never reaches its writes and never succeeds: it is answered 404
\* when the claim is gone, else 403 when the caller does not own the item,
\* else 400 (500 when the store call fails) and it changes no claim and no
\* item.
C4_LaterResolveFails ==
  /\ [](\A r \in Slots :
          (req[r].kind = "resolve" /\ req[r].after) =>
            /\ req[r].pc \in {"findClaim", "done"}
            /\ (req[r].pc = "done" /\ DecisionValid(req[r].decision) /\ req[r].cause # "store") =>
                 IF ClaimById(req[r].claim) = {} THEN req[r].resp = 404
                 ELSE IF items[(CHOOSE c \in ClaimById(req[r].claim) : TRUE).item].createdBy
                           # req[r].user
                   THEN req[r].resp = 403
                   ELSE req[r].resp = 400 /\ req[r].cause = "processed")
  /\ [][\A r \in Slots :
          (req[r].kind = "resolve" /\ req[r].after /\ req'[r] # req[r])
            => (claims' = claims /\ items' = items)]_vars

\* the owner's second Resolve of a processed claim is answered 400
C4_Witness ==
  \E r \in Slots : /\ req[r].kind = "resolve" /\ req[r].pc = "done" /\ req[r].after
                   /\ req[r].resp = 400 /\ req[r].cause = "processed"

C6_ApprovedImpliesResolved ==
  \A c \in claims : c.status = "approved" => items[c.item].status = "resolved"

\* C7: a Resolve answered 200 with decision approved leaves the claim's item
\* with status resolved; no step of a Resolve with decision rejected changes
\* any field of any item.
C7_ResolveItemEffect ==
  [][\A r \in Slots :
       (req[r].kind = "resolve" /\ req'[r] # req[r]) =>
         /\ (req'[r].pc = "done" /\ req'[r].resp = 200
               /\ req[r].decision = "approved")
              => items'[req[r].item].status = "resolved"
         /\ req[r].decision = "rejected" => items' = items]_vars

\* an approval was answered 200 and the item, active when the claim was
\* read, is resolved
C7_Witness ==
  \E r \in Slots : /\ req[r].kind = "resolve" /\ req[r].pc = "done" /\ req[r].resp = 200
                   /\ req[r].decision = "approved" /\ req[r].snap = "active"
                   /\ items[req[r].item].status = "resolved"

\* C8: no claim exists whose claimant is the owner of the claim's item.
C8_NoClaimOnOwnItem ==
  \A c \in claims : items[c.item].createdBy # c.claimedBy

\* the owner's Submit on the own item was answered 400
C8_Witness ==
  \E r \in Slots : /\ req[r].kind = "submit" /\ req[r].pc = "done"
                   /\ req[r].resp = 400 /\ req[r].cause = "own"
                   /\ items[req[r].item].createdBy = req[r].user

\* C9: every claim's item has type found.
C9_ClaimsOnFoundOnly ==
  \A c \in claims : items[c.item].type = "found"

\* C10: every claim, at the moment it is inserted, refers to an item that
\* exists, is not soft-deleted and has status active.
C10_CreatedOnAvailableItem ==
  [][\A c \in claims' :
       (\A d \in claims : d.id # c.id) => ItemAvailable(items'[c.item])]_vars

\* C11: a Resolve that was answered 200 is never undone by a racing Delete:
\* a claim reported approved or rejected to the owner stays in the store.
C11_ResolvedClaimKept ==
  \A c \in ClaimIds : nOk[c] > 0 => ClaimById(c) # {}

\* C12: a claim leaves the store only through a Delete of its claimant and
\* only while its stored status is pending.
C12_DeleteOnlyPendingOwn ==
  [][\A c \in claims :
       (\A d \in claims' : d.id # c.id) =>
         /\ c.status = "pending"
         /\ \E r \in Slots : /\ req[r].kind = "delete" /\ req[r].claim = c.id
                             /\ req[r].user = c.claimedBy
                             /\ req'[r].resp = 200]_vars

\* C16: every view answered 200 raises the stored view counter of its item
\* by exactly one, also when views overlap.
C16_EachViewCounts ==
  [][\A r \in Slots :
       (req[r].kind = "view" /\ req[r].pc = "incViews" /\ req'[r].resp = 200)
         => items'[req[r].item].views = items[req[r].item].views + 1]_vars

\* C17: an edit answered 200 was issued by the item's owner on an item it
\* found not soft-deleted, and the write of an edit leaves status, active
\* flag, type, owner and view counter of every item as they are stored.
C17_EditFrame ==
  /\ [](\A r \in Slots :
          (req[r].kind = "itemEdit" /\ req[r].pc = "done" /\ req[r].resp = 200)
            => /\ req[r].doc.exists /\ req[r].doc.isActive
               /\ req[r].doc.createdBy = req[r].user
               /\ items[req[r].item].createdBy = req[r].user)
  /\ [][\A r \in Slots :
          (req[r].kind = "itemEdit" /\ req'[r] # req[r])
            => \A i \in ItemIds :
                 /\ items'[i].exists = items[i].exists
                 /\ items'[i].status = items[i].status
                 /\ items'[i].isActive = items[i].isActive
                 /\ items'[i].type = items[i].type
                 /\ items'[i].createdBy = items[i].createdBy
                 /\ items'[i].views = items[i].views]_vars

\* C17 witness: an edit succeeded and changed the title although the item
\* was resolved and viewed between the edit's lookup and its save.
C17_Witness ==
  \E r \in Slots :
    /\ req[r].kind = "itemEdit" /\ req[r].pc = "done" /\ req[r].resp = 200
    /\ req[r].doc.status = "active" /\ items[req[r].item].status = "resolved"
    /\ items[req[r].item].title = "t1"

\* C18 as stated: a soft-delete or resolve of an existing item by a user who
\* is not its owner is answered 403.
C18_Original ==
  \A r \in Slots :
    (/\ req[r].kind \in {"itemDelete", "itemResolve"} /\ req[r].pc = "done"
     /\ req[r].cause # "store"
     /\ items[req[r].item].exists
     /\ items[req[r].item].createdBy # req[r].user)
      => req[r].resp = 403

\* C18: a soft-delete or resolve by a user who is not the item's owner is
\* answered 404 when the item is missing or soft-deleted and 403 otherwise,
\* and no step of such a request changes any item.
C18_OwnerOnly ==
  /\ [](\A r \in Slots :
          (/\ req[r].kind \in {"itemDelete", "itemResolve"} /\ req[r].pc = "done"
           /\ req[r].cause # "store"
           /\ items[req[r].item].createdBy # req[r].user)
            => LET it == items[req[r].item] IN
                 req[r].resp = IF ~it.exists \/ ~it.isActive THEN 404 ELSE 403)
  /\ [][\A r \in Slots :
          (/\ req[r].kind \in {"itemDelete", "itemResolve"}
           /\ items[req[r].item].createdBy # req[r].user
           /\ req'[r] # req[r])
            => items' = items]_vars

\* C18 witness: a non-owner's soft-delete of an active item was answered 403.
C18_Witness ==
  \E r \in Slots :
    /\ req[r].kind = "itemDelete" /\ req[r].pc = "done" /\ req[r].resp = 403
    /\ items[req[r].item].exists /\ items[req[r].item].isActive
    /\ items[req[r].item].createdBy # req[r].user

\* C19: an item document, once created, stays in the collection, and the
\* write of DELETE /items/:id changes nothing but the active flag, which it
\* sets to false.
C19_SoftDeleteOnly ==
  [][\A i \in ItemIds :
       items[i].exists =>
         /\ items'[i].exists
         /\ \A r \in Slots :
              (/\ req[r].kind = "itemDelete" /\ req[r].item = i
               /\ req[r].pc = "saveItem" /\ req'[r].resp = 200)
                => items' = [items EXCEPT ![i].isActive = FALSE]]_vars

\* C19 witness: an edited item was soft-deleted and is still stored with
\* its edited title.
C19_Witness ==
  \E r \in Slots :
    /\ req[r].kind = "itemDelete" /\ req[r].pc = "done" /\ req[r].resp = 200
    /\ items[req[r].item].exists /\ ~items[req[r].item].isActive
    /\ items[req[r].item].title = "t1"

\* C13: every claim returned by GET /claims/pending is stored with status
\* pending and belongs to an item owned by the requester; the claims on
\* other users' items are left out and the request is still answered 200.
C13_PendingOfOwnItems ==
  \A r \in Slots :
    (req[r].kind = "listPending" /\ req[r].pc = "done"
     /\ req[r].cause \notin {"auth", "store"})
      => /\ req[r].resp = 200
         /\ \A k \in 1..Len(req[r].out) :
              \E c \in claims :
                /\ c.id = req[r].out[k]
                /\ c.status = "pending"
                /\ items[c.item].createdBy = req[r].user

\* C13 witness: a user who owns no item asked for the pending claims while
\* a pending claim on another user's item was stored, and got an empty list.
C13_Witness ==
  \E r \in Slots :
    /\ req[r].kind = "listPending" /\ req[r].pc = "done" /\ req[r].resp = 200
    /\ req[r].out = <<>>
    /\ \E c \in claims : c.status = "pending" /\ items[c.item].createdBy # req[r].user

\* C14 as stated: for an existing item, GET /claims/item/:itemId answers a
\* requester who is not the owner with 403 and the owner with the claims
\* stored for the item.
C14_Original ==
  \A r \in Slots :
    (/\ req[r].kind = "listForItem" /\ req[r].pc = "done"
     /\ req[r].cause \notin {"auth", "store"}
     /\ items[req[r].item].exists)
      => IF items[req[r].item].createdBy # req[r].user
           THEN req[r].resp = 403 /\ req[r].out = <<>>
           ELSE /\ req[r].resp = 200
                /\ {req[r].out[k] : k \in 1..Len(req[r].out)}
                     = {c.id : c \in {d \in claims : d.item = req[r].item}}

\* C14: GET /claims/item/:itemId answers 404 with no claim when the item is
\* missing or soft-deleted, otherwise 403 with no claim to a requester who
\* is not the owner, and gives the owner exactly the claims stored for the
\* item.
C14_OwnerSeesItemClaims ==
  \A r \in Slots :
    (req[r].kind = "listForItem" /\ req[r].pc = "done"
     /\ req[r].cause \notin {"auth", "store"})
      => LET it == items[req[r].item] IN
           IF ~it.exists \/ ~it.isActive
             THEN req[r].resp = 404 /\ req[r].out = <<>>
           ELSE IF it.createdBy # req[r].user
             THEN req[r].resp = 403 /\ req[r].out = <<>>
           ELSE /\ req[r].resp = 200
                /\ {req[r].out[k] : k \in 1..Len(req[r].out)}
                     = {c.id : c \in {d \in claims : d.item = req[r].item}}

\* C14 witness: a claimant asked for the claims of an item that holds the
\* claimant's own claim and was answered 403.
C14_Witness ==
  \E r \in Slots :
    /\ req[r].kind = "listForItem" /\ req[r].pc = "done" /\ req[r].resp = 403
    /\ \E c \in claims : c.item = req[r].item /\ c.claimedBy = req[r].user

\* C15: every item returned by GET /items is stored, not soft-deleted, has
\* status active, and has the type and the category of the query when the
\* query names one other than 'all'.
C15_ListedItemsVisible ==
  \A r \in Slots :
    (req[r].kind = "listItems" /\ req[r].pc = "done" /\ req[r].resp = 200)
      => \A k \in 1..Len(req[r].out) :
           LET it == items[req[r].out[k]]
               q == req[r].query IN
             /\ it.exists /\ it.isActive /\ it.status = "active"
             /\ q.type \notin {"", "all"} => it.type = q.type
             /\ q.category \notin {"", "all"} => it.category = q.category

\* C15 witness: a listing of the found items of category Keys returned an
\* item and left out a stored item that is resolved or soft-deleted.
C15_Witness ==
  \E r \in Slots :
    /\ req[r].kind = "listItems" /\ req[r].pc = "done" /\ req[r].resp = 200
    /\ req[r].query.type = "found" /\ req[r].query.category = "Keys"
    /\ ~req[r].query.narrow
    /\ Len(req[r].out) = 1
    /\ \E i \in DOMAIN items :
         /\ items[i].exists /\ items[i].type = "found" /\ items[i].category = "Keys"
         /\ (~items[i].isActive \/ items[i].status = "resolved")

\* C20: a request for a claim route or an item mutation that arrives with no
\* token, a malformed or expired token, or the token of a missing or
\* deactivated user is answered 401 at once and changes neither claims nor
\* items; a view of an item is never answered 401, whatever the credential.
C20_Unauthenticated ==
  /\ [][\A r \in Slots : \A cred \in Creds :
          (/\ \/ cred.token \in {"none", "malformed", "expired"}
              \/ cred.token = "valid" /\ cred.account \in {"missing", "inactive"}
           /\ ProtectedArrival(r, cred))
            => /\ req'[r].pc = "done" /\ req'[r].resp = 401
               /\ claims' = claims /\ items' = items]_vars
  /\ [][\A r \in Slots : \A cred \in Creds :
          PublicArrival(r, cred) => req'[r].pc = "findItem"]_vars
  /\ [](\A r \in Slots : req[r].kind = "view" => req[r].resp # 401)

\* C20 witness: a Delete was answered 401 while a pending claim is stored.
C20_Witness ==
  \E r \in Slots :
    /\ req[r].kind = "delete" /\ req[r].pc = "done" /\ req[r].resp = 401
    /\ \E c \in claims : c.status = "pending"

C23_MessageBounds ==
  /\ [][\A r \in Slots, u \in Users, i \in ItemIds, len \in MsgLens :
          SubmitStart(r, u, i, len)
            => IF len >= 20 /\ len <= 1000
                 THEN req'[r].pc = "findItem"
                 ELSE /\ req'[r].pc = "done" /\ req'[r].resp = 400
                      /\ claims' = claims]_vars
  /\ [][\A c \in claims' :
          (\A d \in claims : d.id # c.id)
            => /\ c.status = "pending"
               /\ \E r \in Slots : req[r].kind = "submit" /\ req[r].pc = "save"]_vars
  /\ [](\A r \in Slots :
          (req[r].kind = "submit" /\ req[r].cause = "validation")
            => req[r].resp = 400 /\ req[r].claim = NoClaimId)

\* C23 witness: a Submit was answered 201 with its pending claim stored.
C23_Witness ==
  \E r \in Slots :
    /\ req[r].kind = "submit" /\ req[r].pc = "done" /\ req[r].resp = 201
    /\ \E c \in claims : c.id = req[r].claim /\ c.status = "pending"

\* C24: a stored claim is pending exactly when it has no resolver and no
\* resolution time, and the resolver of an approved or rejected claim is
\* the owner of the claim's item.
C24_ResolverIsOwner ==
  \A c \in claims :
    /\ c.status = "pending" <=> (c.resolvedBy = NoUser /\ c.resolvedAt = 0)
    /\ c.status # "pending" => c.resolvedBy = items[c.item].createdBy

\* C24 witness: the store holds a rejected claim resolved by the item's
\* owner next to a pending one.
C24_Witness ==
  /\ \E c \in claims : /\ c.status = "rejected" /\ c.resolvedAt > 0
                       /\ c.resolvedBy = items[c.item].createdBy
  /\ \E c \in claims : c.status = "pending" /\ c.resolvedBy = NoUser

\* C25: no item ever has two of its claims stored with status approved.
C25_OneApprovedPerItem ==
  \A c, d \in claims :
    (c.item = d.item /\ c.status = "approved" /\ d.status = "approved") => c.id = d.id

\* C26: no step takes an item's status from resolved to anything else, none
\* sets status archived, none sets the active flag of a stored item back to
\* true, and an item that is out of the public listing stays out of it.
C26_LifecycleMonotone ==
  [][\A i \in ItemIds :
       /\ items[i].status = "resolved" => items'[i].status = "resolved"
       /\ items'[i].status # "archived"
       /\ (items[i].exists /\ ~items[i].isActive) => ~items'[i].isActive
       /\ (items[i].exists /\ ~(items[i].isActive /\ items[i].status = "active"))
            => ~(items'[i].isActive /\ items'[i].status = "active")]_vars

\* C26 witness: an item is both resolved and soft-deleted.
C26_Witness ==
  \E i \in ItemIds :
    items[i].exists /\ items[i].status = "resolved" /\ ~items[i].isActive

\* C27: with u3's claim stored on u1's found item, whenever a Delete of u2
\* is answered 200 the claims and the items are again what they were before
\* u2 submitted, and a Submit of u2 that arrives while u2 has no claim on
\* the item and passes validation is answered 201 with its claim stored.
C27_RoundTrip ==
  /\ \A r \in Slots :
       (req[r].kind = "delete" /\ req[r].pc = "done" /\ req[r].resp = 200)
         => /\ claims = {NewClaim(1, 1, "u3")}
            /\ items = [i \in ItemIds |-> NewItem("u1", "found", "t0", "Keys")]
  /\ \A r \in Slots :
       (/\ req[r].kind = "submit" /\ req[r].pc = "done" /\ req[r].user = "u2"
        /\ ~req[r].after /\ req[r].cause \notin {"store", "validation"})
         => /\ req[r].resp = 201
            /\ NewClaim(req[r].claim, 1, "u2") \in claims

\* C27 witness: u2's second Submit was answered 201 after u2's first claim
\* was created and deleted (claim ids are 1 for u3, 2 and 3 for u2).
C27_Witness ==
  \E r \in Slots :
    /\ req[r].kind = "submit" /\ req[r].pc = "done" /\ req[r].resp = 201
    /\ req[r].user = "u2" /\ req[r].claim = 3
    /\ claims = {NewClaim(1, 1, "u3"), NewClaim(3, 1, "u2")}

\* C28: a request that fails a check is answered for the first check that
\* fails, in the order of the handler.  Submit: validation, item available
\* (404), own item (400), duplicate (400).  Resolve: validation, claim
\* exists (404), requester owns the item (403), claim pending (400).
\* Delete: claim exists (404), requester is the claimant (403), claim
\* pending (400).
C28_FirstFailingCheck ==
  \A r \in Slots :
    (req[r].pc = "done" /\ req[r].cause \notin {"", "auth", "store", "E11000", "DocumentNotFound"})
      =>
      /\ req[r].kind = "submit" =>
           LET it == items[req[r].item]
               avail == it.exists /\ it.isActive /\ it.status = "active" IN
             IF req[r].cause = "validation" THEN req[r].resp = 400
             ELSE IF ~avail THEN req[r].resp = 404 /\ req[r].cause = "item"
             ELSE IF it.createdBy = req[r].user
               THEN req[r].resp = 400 /\ req[r].cause = "own"
             ELSE /\ req[r].resp = 400 /\ req[r].cause = "duplicate"
                  /\ \E c \in claims : c.item = req[r].item /\ c.claimedBy = req[r].user
      /\ req[r].kind = "resolve" =>
           LET cs == {c \in claims : c.id = req[r].claim} IN
             IF req[r].decision \notin {"approved", "rejected"}
               THEN req[r].resp = 400 /\ req[r].cause = "validation"
             ELSE IF cs = {} THEN req[r].resp = 404 /\ req[r].cause = "claim"
             ELSE IF \E c \in cs : items[c.item].createdBy # req[r].user
               THEN req[r].resp = 403 /\ req[r].cause = "owner"
             ELSE /\ req[r].resp = 400 /\ req[r].cause = "processed"
                  /\ \A c \in cs : c.status # "pending"
      /\ req[r].kind = "delete" =>
           LET cs == {c \in claims : c.id = req[r].claim} IN
             IF cs = {} THEN req[r].resp = 404 /\ req[r].cause = "claim"
             ELSE IF \E c \in cs : c.claimedBy # req[r].user
               THEN req[r].resp = 403 /\ req[r].cause = "claimant"
             ELSE /\ req[r].resp = 400 /\ req[r].cause = "processed"
                  /\ \A c \in cs : c.status # "pending"

\* C28 witness: a user who does not own the item tried to resolve a claim
\* that was already processed and was answered 403.
C28_Witness ==
  \E r \in Slots :
    /\ req[r].kind = "resolve" /\ req[r].pc = "done" /\ req[r].resp = 403
    /\ \E c \in claims : /\ c.id = req[r].claim /\ c.status # "pending"
                         /\ items[c.item].createdBy # req[r].user

\* C22: a listing for page p >= 1 and limit l in 1..50 returns at most l
\* items, the ones at positions (p-1)*l .. p*l-1 of the matching items taken
\* newest first; pagination.total is the number of matching items and
\* pagination.pages is ceil(total / l).  A limit above 50 is answered 400.
C22_Pagination ==
  \A r \in Slots :
    (req[r].kind = "listItems" /\ req[r].pc = "done" /\ req[r].cause # "store")
      =>
      LET q == req[r].query
          out == req[r].out
          skip == (q.page - 1) * q.limit IN
        /\ q.limit > 50 => req[r].resp = 400
        /\ req[r].resp = 200 =>
             /\ q.page >= 1 /\ q.limit >= 1 /\ q.limit <= 50
             /\ \E M \in SUBSET (DOMAIN items) :
                  /\ ~q.narrow => M = DOMAIN items
                  /\ LET S == {i \in DOMAIN items :
                                 /\ items[i].exists /\ items[i].isActive
                                 /\ items[i].status = "active"
                                 /\ q.type \notin {"", "all"} => items[i].type = q.type
                                 /\ q.category \notin {"", "all"} => items[i].category = q.category
                                 /\ q.narrow => i \in M}
                         n == Cardinality(S) IN
                       /\ Len(out) <= q.limit
                       /\ Len(out) = Cardinality({j \in 0..(n - 1) : skip <= j /\ j < skip + q.limit})
                       /\ \A k \in 1..Len(out) :
                            /\ out[k] \in S
                            /\ Cardinality({j \in S : j > out[k]}) = skip + k - 1
                       /\ req[r].total = n
                       /\ req[r].pages * q.limit >= n
                       /\ (req[r].pages - 1) * q.limit < n

\* C22 witness: two items match, and page 2 of a listing with limit 1
\* returned the older one, with total 2 and pages 2.
C22_Witness ==
  \E r \in Slots :
    /\ req[r].kind = "listItems" /\ req[r].pc = "done" /\ req[r].resp = 200
    /\ req[r].query.page = 2 /\ req[r].query.limit = 1
    /\ req[r].out = <<1>> /\ req[r].total = 2 /\ req[r].pages = 2

\* C29: every request that has passed through auth or adminAuth had exactly
\* one outcome, once: one error response (401, 403 or 500) or one call of
\* next().  next() is called only for a valid credential of an existing
\* active user, by adminAuth only when the user is also an admin, and no
\* second response is sent for a missing or invalid credential.
C29_OneOutcome ==
  \A r \in Slots :
    (req[r].kind \in {"auth", "adminAuth"} /\ req[r].pc = "done")
      =>
      /\ Len(req[r].sent) + req[r].nexts = 1
      /\ \A k \in 1..Len(req[r].sent) : req[r].sent[k] \in {401, 403, 500}
      /\ req[r].nexts = 1 =>
           /\ req[r].cred.token = "valid" /\ req[r].cred.account = "active"
           /\ req[r].kind = "adminAuth" => req[r].role = "admin"
      /\ ~req[r].rejected

\* C30: in the AuthProvider, whenever user is set a token is in localStorage
\* and the Authorization header is set, however verifyToken interleaves with
\* login, register and logout; and when logout has run, user is null, the
\* token is removed and the header is cleared.
C30_SessionConsistent ==
  /\ (browser.mounted /\ browser.user # NoUser)
       => (browser.token # "" /\ browser.header # "")
  /\ browser.last = "logout"
       => (browser.user = NoUser /\ browser.token = "" /\ browser.header = "")
====
